---------------------------- MODULE Spec2Model ----------------------------
(***************************************************************************)
(* Users issuing read/write requests to tables that arbitrate them with a  *)
(* multiple-reader / single-writer FCFS queue (src/progetto/User.cc,       *)
(* src/progetto/Table.cc), run on a discrete-event timeline.               *)
(*                                                                         *)
(* Simulated time is an integer number of ticks.  The future event set is  *)
(* a sequence ordered by time, events of equal time in insertion order.    *)
(* A message is a record [id, kind, userId, arrivalTime, serviceTime]; id  *)
(* stands for the identity of the cMessage object.                         *)
(***************************************************************************)
EXTENDS Integers, Sequences, FiniteSets, TLC

(* ------------------------------ bounds --------------------------------- *)

\* Requests created in one run: no access timer fires once this many exist.
MaxRequests == 4

(* --------------------------- configuration ----------------------------- *)

\* Gate indices of the users (userId) and of the tables (tableId).
Users == {0, 1}
numTables == 1
Tables == 0 .. (numTables - 1)

READ == 0
WRITE == 1

\* Values drawn by exponential(1/lambda), in ticks.
Delays == {1, 2}
\* Values drawn by uniform(0,1), in hundredths.
UniformDraws == {25, 75}
\* Values drawn by lognormal(m,s), in tenths.
LognormalDraws == {5, 17, 48}

\* The parameter sets a user can be configured with; readProbability in
\* hundredths, serviceTime in ticks.
UserConfigs ==
    { [tableDistribution |-> "uniform",   readProbability |-> 50, serviceTime |-> 1],
      [tableDistribution |-> "lognormal", readProbability |-> 50, serviceTime |-> 3],
      [tableDistribution |-> "zipf",      readProbability |-> 50, serviceTime |-> 1],
      [tableDistribution |-> "uniform",   readProbability |-> 150, serviceTime |-> 1] }

VARIABLES
    now,        \* simTime()
    fes,        \* future event set: pending timers and messages in flight
    phase,      \* "running", "ended" (finish() is being called), "aborted" (error())
    userPar,    \* par(...) of each user
    user,       \* the counters of each User
    table,      \* the fields of each Table
    hist,       \* per table: requests in arrival, admission and completion order
    nextId,     \* number of request objects created so far, plus one
    issued,     \* per request id: the user that created it, its kind, when, for which table
    lastReport  \* the scalars recorded by finish(), per module

vars == <<now, fes, phase, userPar, user, table, hist, nextId, issued, lastReport>>

(* ------------------------------ messages ------------------------------- *)

NoMsg == [id |-> 0, kind |-> 0, userId |-> -1, arrivalTime |-> 0, serviceTime |-> 0]

Event(type, time, dest, msg) == [type |-> type, time |-> time, dest |-> dest, msg |-> msg]

\* Number of events of the sequence f due at or before time t.
RECURSIVE DueCount(_, _)
DueCount(f, t) ==
    IF f = << >> \/ Head(f).time > t THEN 0 ELSE 1 + DueCount(Tail(f), t)

\* scheduleAt / send: the event goes behind every event due at or before its time.
Schedule(f, ev) ==
    LET k == DueCount(f, ev.time)
    IN  SubSeq(f, 1, k) \o <<ev>> \o SubSeq(f, k + 1, Len(f))

(* -------------------------------- Table -------------------------------- *)

\* Table::Table and Table::initialize at simTime() = 0.
TableInit ==
    [ requestQueue       |-> << >>,
      activeReaders      |-> 0,
      writeActive        |-> FALSE,
      serviceEvents      |-> << >>,
      totalServed        |-> 0,
      totalReads         |-> 0,
      totalWrites        |-> 0,
      totalBusyTime      |-> 0,
      lastStateChange    |-> 0,
      maxQueueLength     |-> 0,
      totalQueueLength   |-> 0,
      queueLengthSamples |-> 0,
      totalWaitingTime   |-> 0 ]

\* What has happened at a table: the requests in arrival, admission and completion
\* order, the responses it has sent, the queue lengths it has emitted on arrivals,
\* the ids of the request objects it has deleted
\* and of the serviceDone events it has cancelled, whether the Table object has
\* been destroyed, and how many arrivals and completions it had handled when a
\* serviceDone event without a request reached it (-1: none did).
HistInit ==
    [ arrived   |-> << >>,
      admitted  |-> << >>,
      served    |-> << >>,
      sent      |-> << >>,
      samples   |-> << >>,
      deleted   |-> {},
      cancelled |-> {},
      destroyed |-> FALSE,
      faultAt   |-> -1 ]

\* The state one table's handlers work on: its fields, the event set, its history.
World(t) == [tab |-> table[t], fes |-> Tail(fes), hist |-> hist[t], id |-> t]

\* Mutant of startServiceForRequest: every admission marks the start of a busy
\* period, the table having been busy or not.
startServiceRestartsBusyPeriod(S, req, tnow) ==
    LET tab    == S.tab
        isRead == req.kind = READ
        done   == Event("done", tnow + req.serviceTime, S.id, req)
    IN  [ S EXCEPT
            !.tab = [ tab EXCEPT
                        !.serviceEvents    = Append(@, req.id),
                        !.totalWaitingTime = @ + (tnow - req.arrivalTime),
                        !.activeReaders    = IF isRead THEN @ + 1 ELSE @,
                        !.writeActive      = IF isRead THEN @ ELSE TRUE,
                        !.lastStateChange  = tnow ],
            !.fes = Schedule(@, done),
            !.hist.admitted = Append(@, [req |-> req, at |-> tnow]) ]

\* Table::startServiceForRequest
startServiceForRequest(S, req, tnow) ==
    LET tab     == S.tab
        wasBusy == tab.activeReaders > 0 \/ tab.writeActive
        isRead  == req.kind = READ
        done    == Event("done", tnow + req.serviceTime, S.id, req)
    IN  [ S EXCEPT
            !.tab = [ tab EXCEPT
                        !.serviceEvents    = Append(@, req.id),
                        !.totalWaitingTime = @ + (tnow - req.arrivalTime),
                        !.activeReaders    = IF isRead THEN @ + 1 ELSE @,
                        !.writeActive      = IF isRead THEN @ ELSE TRUE,
                        !.lastStateChange  = IF wasBusy THEN @ ELSE tnow ],
            !.fes = Schedule(@, done),
            !.hist.admitted = Append(@, [req |-> req, at |-> tnow]) ]

\* requestQueue.pop()
Pop(S) == [S EXCEPT !.tab.requestQueue = Tail(@)]

\* Mutant of processLoop: a Write at the head is admitted whatever activeReaders is.
RECURSIVE processLoopWriteIgnoresReaders(_, _)
processLoopWriteIgnoresReaders(S, tnow) ==
    IF S.tab.requestQueue = << >> THEN S
    ELSE LET req == Head(S.tab.requestQueue)
         IN  IF req.kind = READ
             THEN processLoopWriteIgnoresReaders(startServiceForRequest(Pop(S), req, tnow), tnow)
             ELSE startServiceForRequest(Pop(S), req, tnow)

\* The queue without its i-th request.
Without(q, i) == SubSeq(q, 1, i - 1) \o SubSeq(q, i + 1, Len(q))

\* Mutant of processLoop: behind a Write blocked at the head, the first Read of the
\* queue is admitted with the active readers.
RECURSIVE processLoopOvertake(_, _)
processLoopOvertake(S, tnow) ==
    IF S.tab.requestQueue = << >> THEN S
    ELSE LET q   == S.tab.requestQueue
             req == Head(q)
             rds == {i \in DOMAIN q : q[i].kind = READ}
         IN  IF req.kind = READ
             THEN processLoopOvertake(startServiceForRequest(Pop(S), req, tnow), tnow)
             ELSE IF S.tab.activeReaders = 0
                  THEN startServiceForRequest(Pop(S), req, tnow)
                  ELSE IF rds = {} THEN S
                  ELSE LET i == CHOOSE x \in rds : \A y \in rds : x <= y
                       IN  processLoopOvertake(
                               startServiceForRequest(
                                   [S EXCEPT !.tab.requestQueue = Without(q, i)], q[i], tnow),
                               tnow)

\* The while loop of Table::processQueue.
RECURSIVE processLoop(_, _)
processLoop(S, tnow) ==
    IF S.tab.requestQueue = << >> THEN S
    ELSE LET req == Head(S.tab.requestQueue)
         IN  IF req.kind = READ
             THEN processLoop(startServiceForRequest(Pop(S), req, tnow), tnow)
             ELSE IF S.tab.activeReaders = 0
                  THEN startServiceForRequest(Pop(S), req, tnow)
                  ELSE S

\* Mutant of processQueue: the pass runs although a Write is in service.
processQueueNoWriterCheck(S, tnow) == processLoop(S, tnow)

\* Table::processQueue
processQueue(S, tnow) ==
    IF S.tab.writeActive THEN S ELSE processLoop(S, tnow)

\* Mutant of removeEvent: the first record is erased, whichever event completed.
removeEventFirst(evts, id) ==
    IF evts = << >> THEN << >> ELSE Tail(evts)

\* Table::removeEvent
RECURSIVE removeEvent(_, _)
removeEvent(evts, id) ==
    IF evts = << >> THEN << >>
    ELSE IF Head(evts) = id THEN Tail(evts)
    ELSE <<Head(evts)>> \o removeEvent(Tail(evts), id)

\* Mutant of onArrival: the queue length is sampled after the admission pass.
onArrivalSamplesAfterAdmission(S, msg, tnow) ==
    LET S1   == [ S EXCEPT
                    !.tab.requestQueue = Append(@, msg),
                    !.hist.arrived = Append(@, msg) ]
        S2   == processQueue(S1, tnow)
        qlen == Len(S2.tab.requestQueue)
    IN  [ S2 EXCEPT
            !.tab = [ @ EXCEPT
                        !.maxQueueLength     = IF qlen > @ THEN qlen ELSE @,
                        !.totalQueueLength   = @ + qlen,
                        !.queueLengthSamples = @ + 1 ],
            !.hist.samples = Append(@, qlen) ]

\* Table::handleMessage, the branch of an arrival from a user.
onArrival(S, msg, tnow) ==
    LET q    == Append(S.tab.requestQueue, msg)
        qlen == Len(q)
        S1   == [ S EXCEPT
                    !.tab = [ @ EXCEPT
                                !.requestQueue       = q,
                                !.maxQueueLength     = IF qlen > @ THEN qlen ELSE @,
                                !.totalQueueLength   = @ + qlen,
                                !.queueLengthSamples = @ + 1 ],
                    !.hist.arrived = Append(@, msg),
                    !.hist.samples = Append(@, qlen) ]
    IN  processQueue(S1, tnow)

\* Mutant of Response: the response is stamped with the default kind.
ResponseDefaultKind(orig) == [NoMsg EXCEPT !.arrivalTime = orig.arrivalTime]

\* The response built by Table::handleMessage: kind and arrivalTime copied.
Response(orig) == [NoMsg EXCEPT !.kind = orig.kind, !.arrivalTime = orig.arrivalTime]

\* Mutant of countServed: the else is missing, a Read is counted as a Write too.
countServedMissingElse(tab, isRead) ==
    [ tab EXCEPT
        !.totalServed = @ + 1,
        !.totalReads  = IF isRead THEN @ + 1 ELSE @,
        !.totalWrites = @ + 1 ]

\* The counters updated on a completion.
countServed(tab, isRead) ==
    [ tab EXCEPT
        !.totalServed = @ + 1,
        !.totalReads  = IF isRead THEN @ + 1 ELSE @,
        !.totalWrites = IF isRead THEN @ ELSE @ + 1 ]

\* Mutant of releaseService: a Read's completion releases two readers.
releaseServiceTwoReaders(tab, isRead) ==
    [ tab EXCEPT
        !.activeReaders = IF isRead THEN (IF @ - 2 < 0 THEN 0 ELSE @ - 2) ELSE @,
        !.writeActive   = IF isRead THEN @ ELSE FALSE ]

\* Mutant of releaseService: a Read's completion resets activeReaders to 0.
releaseServiceResetsReaders(tab, isRead) ==
    [ tab EXCEPT
        !.activeReaders = IF isRead THEN 0 ELSE @,
        !.writeActive   = IF isRead THEN @ ELSE FALSE ]

\* The reader/writer state released on a completion.
releaseService(tab, isRead) ==
    [ tab EXCEPT
        !.activeReaders = IF isRead THEN (IF @ - 1 < 0 THEN 0 ELSE @ - 1) ELSE @,
        !.writeActive   = IF isRead THEN @ ELSE FALSE ]

\* Mutant of closeBusyPeriod: the busy time is accumulated on every completion,
\* lastStateChange moves only when the table goes idle.
closeBusyPeriodEveryCompletion(tab, tnow) ==
    [ tab EXCEPT
        !.totalBusyTime   = @ + (tnow - tab.lastStateChange),
        !.lastStateChange = IF tab.activeReaders = 0 /\ ~tab.writeActive THEN tnow ELSE @ ]

\* The busy time accumulated when a completion leaves the table idle.
closeBusyPeriod(tab, tnow) ==
    IF tab.activeReaders = 0 /\ ~tab.writeActive
    THEN [ tab EXCEPT
             !.totalBusyTime   = @ + (tnow - tab.lastStateChange),
             !.lastStateChange = tnow ]
    ELSE tab

\* Mutant of onNullCompletion: the completion is counted before the pointer is tested.
onNullCompletionCounted(S, msg) ==
    [S EXCEPT !.tab.totalServed = @ + 1,
              !.tab.serviceEvents = removeEvent(@, msg.id)]

\* Table::handleMessage, the branch of a serviceDone event whose context pointer
\* is null: removeEvent(msg), delete msg, return.
onNullCompletion(S, msg) ==
    [S EXCEPT !.tab.serviceEvents = removeEvent(@, msg.id)]

\* Mutant of onCompletion: the admission pass is run again only after the
\* completion of a Write.
onCompletionAdmitsAfterWrite(S, orig, tnow) ==
    LET isRead == orig.kind = READ
        resp   == Event("resp", tnow, orig.userId, Response(orig))
        sent   == IF orig.userId >= 0 THEN Schedule(S.fes, resp) ELSE S.fes
        tab1   == countServed(S.tab, isRead)
        tab2   == [tab1 EXCEPT !.serviceEvents = removeEvent(@, orig.id)]
        tab3   == closeBusyPeriod(releaseService(tab2, isRead), tnow)
        S1     == [ S EXCEPT
                      !.tab = tab3,
                      !.fes = sent,
                      !.hist.served = Append(@, [req |-> orig, at |-> tnow]),
                      !.hist.sent = IF orig.userId >= 0
                                    THEN Append(@, [ req |-> orig.id,
                                                     to  |-> orig.userId,
                                                     msg |-> Response(orig) ])
                                    ELSE @,
                      !.hist.deleted = @ \cup {orig.id} ]
    IN  IF isRead THEN S1 ELSE processQueue(S1, tnow)

\* Mutant of onCompletion: the admission pass is not run again after a completion.
onCompletionNoAdmission(S, orig, tnow) ==
    LET isRead == orig.kind = READ
        resp   == Event("resp", tnow, orig.userId, Response(orig))
        sent   == IF orig.userId >= 0 THEN Schedule(S.fes, resp) ELSE S.fes
        tab1   == countServed(S.tab, isRead)
        tab2   == [tab1 EXCEPT !.serviceEvents = removeEvent(@, orig.id)]
        tab3   == closeBusyPeriod(releaseService(tab2, isRead), tnow)
    IN  [ S EXCEPT
            !.tab = tab3,
            !.fes = sent,
            !.hist.served = Append(@, [req |-> orig, at |-> tnow]),
            !.hist.sent = IF orig.userId >= 0
                          THEN Append(@, [ req |-> orig.id,
                                           to  |-> orig.userId,
                                           msg |-> Response(orig) ])
                          ELSE @,
            !.hist.deleted = @ \cup {orig.id} ]

\* Table::handleMessage, the branch of a serviceDone event with its request.
onCompletion(S, orig, tnow) ==
    LET isRead == orig.kind = READ
        resp   == Event("resp", tnow, orig.userId, Response(orig))
        sent   == IF orig.userId >= 0 THEN Schedule(S.fes, resp) ELSE S.fes
        tab1   == countServed(S.tab, isRead)
        tab2   == [tab1 EXCEPT !.serviceEvents = removeEvent(@, orig.id)]
        tab3   == closeBusyPeriod(releaseService(tab2, isRead), tnow)
        S1     == [ S EXCEPT
                      !.tab = tab3,
                      !.fes = sent,
                      !.hist.served = Append(@, [req |-> orig, at |-> tnow]),
                      !.hist.sent = IF orig.userId >= 0
                                    THEN Append(@, [ req |-> orig.id,
                                                     to  |-> orig.userId,
                                                     msg |-> Response(orig) ])
                                    ELSE @,
                      !.hist.deleted = @ \cup {orig.id} ]
    IN  processQueue(S1, tnow)


(* ----------------------------- statistics ------------------------------ *)

\* A recorded scalar: the quotient num/den, or what a double division by zero
\* yields, or nothing recorded.
Num(n, d) == [tag |-> "num", num |-> n, den |-> d]
NaN == [tag |-> "nan", num |-> 0, den |-> 1]
Inf == [tag |-> "inf", num |-> 0, den |-> 1]
Absent == [tag |-> "absent", num |-> 0, den |-> 1]

\* a / b on doubles, a >= 0 and b >= 0.
FDiv(a, b) == IF b # 0 THEN Num(a, b) ELSE IF a = 0 THEN NaN ELSE Inf

\* busyTime of Table::finish: totalBusyTime plus the busy interval still open.
finishBusyTime(tab, tnow) ==
    IF tab.activeReaders > 0 \/ tab.writeActive
    THEN tab.totalBusyTime + (tnow - tab.lastStateChange)
    ELSE tab.totalBusyTime

\* What Table::finish emits and records.
tableScalars(tab, tnow) ==
    [ throughput     |-> Num(tab.totalServed, 1),
      queueLength    |-> IF tab.queueLengthSamples > 0
                         THEN Num(tab.totalQueueLength \div tab.queueLengthSamples, 1)
                         ELSE Absent,
      utilization    |-> IF tnow > 0 THEN Num(finishBusyTime(tab, tnow), tnow) ELSE Absent,
      totalServed    |-> Num(tab.totalServed, 1),
      totalReads     |-> Num(tab.totalReads, 1),
      totalWrites    |-> Num(tab.totalWrites, 1),
      maxQueueLength |-> Num(tab.maxQueueLength, 1),
      avgWaitingTime |-> IF tab.totalServed > 0
                         THEN Num(tab.totalWaitingTime, tab.totalServed)
                         ELSE Absent ]

\* What User::finish records.
userScalars(usr, tnow) ==
    [ totalAccesses     |-> Num(usr.totalAccesses, 1),
      totalReads        |-> Num(usr.totalReads, 1),
      totalWrites       |-> Num(usr.totalWrites, 1),
      averageWaitTime   |-> IF usr.totalAccesses > 0
                            THEN FDiv(usr.totalWaitTime, usr.totalAccesses)
                            ELSE Num(0, 1),
      accessesPerSecond |-> FDiv(usr.totalAccesses, tnow) ]

\* Nothing recorded yet.
NoReport == [table |-> << >>, user |-> << >>]

(* -------------------------------- User --------------------------------- *)

\* User::initialize, the counters.
UserInit == [totalAccesses |-> 0, totalReads |-> 0, totalWrites |-> 0, totalWaitTime |-> 0]

\* User::selectTableUniform, k the value intuniform(0, numTables-1) returns.
selectTableUniform(k) == k

\* User::selectTableLognormal with numTables = n, x the value lognormal(m, s)
\* returns, in tenths.
selectTableLognormal(x, n) ==
    LET tableId == (x % (n * 10)) \div 10
    IN  IF tableId < 0 THEN 0
        ELSE IF tableId >= n THEN n - 1
        ELSE tableId

\* User::selectTableId: the table ids it can return; none when it calls error().
selectTableId(par) ==
    IF par.tableDistribution = "uniform"
    THEN {selectTableUniform(k) : k \in 0 .. (numTables - 1)}
    ELSE IF par.tableDistribution = "lognormal"
    THEN {selectTableLognormal(x, numTables) : x \in LognormalDraws}
    ELSE {}

\* User::isReadOperation, r the value uniform(0,1) returns.
isReadOperation(par, r) == r < par.readProbability

\* The counters updated by User::handleMessage on a timer fire.
countAccess(usr, isRead) ==
    [ usr EXCEPT
        !.totalReads    = IF isRead THEN @ + 1 ELSE @,
        !.totalWrites   = IF isRead THEN @ ELSE @ + 1,
        !.totalAccesses = @ + 1 ]

\* The request built by User::sendAccessRequest.
Request(id, u, isRead, tnow) ==
    [ id          |-> id,
      kind        |-> IF isRead THEN READ ELSE WRITE,
      userId      |-> u,
      arrivalTime |-> tnow,
      serviceTime |-> userPar[u].serviceTime ]

(* ------------------------------- actions ------------------------------- *)

Init ==
    /\ now = 0
    /\ phase = "running"
    /\ userPar \in [Users -> UserConfigs]
    /\ user = [u \in Users |-> UserInit]
    /\ table = [t \in Tables |-> TableInit]
    /\ hist = [t \in Tables |-> HistInit]
    /\ nextId = 1
    /\ issued = << >>
    /\ lastReport = NoReport
    \* User::initialize: scheduleNextAccess() arms each user's accessTimer.
    /\ \E d \in [Users -> Delays] :
          fes = LET RECURSIVE arm(_, _)
                    arm(f, us) ==
                        IF us = {} THEN f
                        ELSE LET u == CHOOSE x \in us : \A y \in us : x <= y
                             IN  arm(Schedule(f, Event("timer", d[u], u, NoMsg)), us \ {u})
                IN  arm(<< >>, Users)

Running == phase = "running" /\ fes # << >>

\* User::handleMessage(accessTimer) when selectTableId() calls error(): the run aborts.
UserTimerError(u) ==
    /\ Running
    /\ Head(fes).type = "timer" /\ Head(fes).dest = u
    /\ nextId <= MaxRequests
    /\ selectTableId(userPar[u]) = {}
    /\ now' = Head(fes).time
    /\ fes' = Tail(fes)
    /\ phase' = "aborted"
    /\ UNCHANGED <<userPar, user, table, hist, nextId, issued, lastReport>>

\* User::handleMessage(accessTimer): count the access, send the request, re-arm.
UserTimerFire(u) ==
    /\ Running
    /\ Head(fes).type = "timer" /\ Head(fes).dest = u
    /\ nextId <= MaxRequests
    /\ \E tableId \in selectTableId(userPar[u]), r \in UniformDraws, delay \in Delays :
          LET tnow   == Head(fes).time
              isRead == isReadOperation(userPar[u], r)
              req    == Request(nextId, u, isRead, tnow)
              sent   == Schedule(Tail(fes), Event("req", tnow, tableId, req))
          IN  /\ now' = tnow
              /\ user' = [user EXCEPT ![u] = countAccess(@, isRead)]
              /\ fes' = Schedule(sent, Event("timer", tnow + delay, u, NoMsg))
              /\ nextId' = nextId + 1
              /\ issued' = Append(issued, [ userId  |-> u,
                                            kind    |-> IF isRead THEN READ ELSE WRITE,
                                            time    |-> tnow,
                                            tableId |-> tableId ])
    /\ UNCHANGED <<phase, userPar, table, hist, lastReport>>

\* User::handleMessage(response) -> User::processTableResponse
UserResponse(u) ==
    /\ Running
    /\ Head(fes).type = "resp" /\ Head(fes).dest = u
    /\ LET tnow == Head(fes).time
           msg  == Head(fes).msg
       IN  /\ now' = tnow
           /\ user' = [user EXCEPT ![u].totalWaitTime = @ + (tnow - msg.arrivalTime)]
    /\ fes' = Tail(fes)
    /\ UNCHANGED <<phase, userPar, table, hist, nextId, issued, lastReport>>

\* Table::handleMessage(request from a user)
TableArrival(t) ==
    /\ Running
    /\ Head(fes).type = "req" /\ Head(fes).dest = t
    /\ LET tnow == Head(fes).time
           S    == onArrival(World(t), Head(fes).msg, tnow)
       IN  /\ now' = tnow
           /\ table' = [table EXCEPT ![t] = S.tab]
           /\ hist' = [hist EXCEPT ![t] = S.hist]
           /\ fes' = S.fes
    /\ UNCHANGED <<phase, userPar, user, nextId, issued, lastReport>>

\* Table::handleMessage(serviceDone)
TableCompletion(t) ==
    /\ Running
    /\ Head(fes).type = "done" /\ Head(fes).dest = t
    /\ LET tnow == Head(fes).time
           S    == onCompletion(World(t), Head(fes).msg, tnow)
       IN  /\ now' = tnow
           /\ table' = [table EXCEPT ![t] = S.tab]
           /\ hist' = [hist EXCEPT ![t] = S.hist]
           /\ fes' = S.fes
    /\ UNCHANGED <<phase, userPar, user, nextId, issued, lastReport>>

\* Mutant of TableFinish: the open busy interval is flushed into totalBusyTime.
TableFinishFlushesBusyTime(t) ==
    /\ phase = "ended"
    /\ ~hist[t].destroyed
    /\ lastReport' = [lastReport EXCEPT !.table[t] = tableScalars(table[t], now)]
    /\ table' = [table EXCEPT ![t].totalBusyTime = finishBusyTime(table[t], now)]
    /\ UNCHANGED <<now, fes, phase, userPar, user, hist, nextId, issued>>

\* Table::finish
TableFinish(t) ==
    /\ phase = "ended"
    /\ ~hist[t].destroyed
    /\ lastReport' = [lastReport EXCEPT !.table[t] = tableScalars(table[t], now)]
    /\ UNCHANGED <<now, fes, phase, userPar, user, table, hist, nextId, issued>>

\* User::finish
UserFinish(u) ==
    /\ phase = "ended"
    /\ lastReport' = [lastReport EXCEPT !.user[u] = userScalars(user[u], now)]
    /\ UNCHANGED <<now, fes, phase, userPar, user, table, hist, nextId, issued>>

\* The simulation time limit is reached between two events: no event is
\* processed any more and finish() is called on every module.
EndRun ==
    /\ Running
    /\ phase' = "ended"
    /\ \E limit \in now .. (now + 1) :
          /\ limit <= Head(fes).time
          /\ now' = limit
          /\ lastReport' = [ table |-> [t \in Tables |-> tableScalars(table[t], limit)],
                             user  |-> [u \in Users |-> userScalars(user[u], limit)] ]
    /\ UNCHANGED <<fes, userPar, user, table, hist, nextId, issued>>

\* The events of the sequence f other than the serviceDone events of table t whose
\* request id is in ids.
RECURSIVE cancelEvents(_, _, _)
cancelEvents(f, t, ids) ==
    IF f = << >> THEN << >>
    ELSE IF Head(f).type = "done" /\ Head(f).dest = t /\ Head(f).msg.id \in ids
         THEN cancelEvents(Tail(f), t, ids)
         ELSE <<Head(f)>> \o cancelEvents(Tail(f), t, ids)

\* Table::~Table, when the network is deleted after the run: cancelAndDelete of
\* every event of serviceEvents, delete of every request of requestQueue.  The
\* request a serviceDone event points to is not deleted.
TableDestructor(t) ==
    /\ phase \in {"ended", "aborted"}
    /\ ~hist[t].destroyed
    /\ LET evts   == {table[t].serviceEvents[i] : i \in DOMAIN table[t].serviceEvents}
           queued == {table[t].requestQueue[i].id : i \in DOMAIN table[t].requestQueue}
       IN  /\ fes' = cancelEvents(fes, t, evts)
           /\ table' = [table EXCEPT ![t].serviceEvents = << >>,
                                     ![t].requestQueue = << >>]
           /\ hist' = [hist EXCEPT ![t].cancelled = @ \cup evts,
                                   ![t].deleted = @ \cup queued,
                                   ![t].destroyed = TRUE]
    /\ UNCHANGED <<now, phase, userPar, user, nextId, issued, lastReport>>

\* Table::handleMessage(serviceDone without a request): a fault of the environment,
\* no code of the model creates such an event.  It is delivered at the current
\* instant; at most one per table is injected.
TableNullCompletion(t) ==
    /\ Running
    /\ hist[t].faultAt = -1
    /\ LET S == onNullCompletion([World(t) EXCEPT !.fes = fes], NoMsg)
       IN  /\ table' = [table EXCEPT ![t] = S.tab]
           /\ fes' = S.fes
           /\ hist' = [hist EXCEPT ![t] =
                          [S.hist EXCEPT !.faultAt = Len(S.hist.arrived) + Len(S.hist.served)]]
    /\ UNCHANGED <<now, phase, userPar, user, nextId, issued, lastReport>>

Next ==
    \/ \E u \in Users : UserTimerError(u)
    \/ \E u \in Users : UserTimerFire(u)
    \/ \E u \in Users : UserResponse(u)
    \/ \E t \in Tables : TableArrival(t)
    \/ \E t \in Tables : TableCompletion(t)
    \/ EndRun
    \/ \E t \in Tables : TableFinish(t)
    \/ \E u \in Users : UserFinish(u)
    \/ \E t \in Tables : TableDestructor(t)

Spec == Init /\ [][Next]_vars

\* The running program in an environment that may deliver a serviceDone event
\* without a request to a table.
NextFault ==
    \/ \E u \in Users : UserTimerError(u)
    \/ \E u \in Users : UserTimerFire(u)
    \/ \E u \in Users : UserResponse(u)
    \/ \E t \in Tables : TableArrival(t)
    \/ \E t \in Tables : TableCompletion(t)
    \/ \E t \in Tables : TableNullCompletion(t)

SpecFault == Init /\ [][NextFault]_vars

\* The accessTimer at the head of the event set once MaxRequests requests have been
\* created: it stands for a timer armed with a delay longer than the rest of the
\* observed run (the exponential delay is unbounded) and leaves the event set
\* without being handled.
UserTimerBeyond(u) ==
    /\ Running
    /\ Head(fes).type = "timer" /\ Head(fes).dest = u
    /\ nextId > MaxRequests
    /\ fes' = Tail(fes)
    /\ UNCHANGED <<now, phase, userPar, user, table, hist, nextId, issued, lastReport>>

\* The run that continues: no end of the simulation, the kernel delivers the
\* earliest pending event as long as there is one.
NextLive ==
    \/ \E u \in Users : UserTimerError(u)
    \/ \E u \in Users : UserTimerFire(u)
    \/ \E u \in Users : UserTimerBeyond(u)
    \/ \E u \in Users : UserResponse(u)
    \/ \E t \in Tables : TableArrival(t)
    \/ \E t \in Tables : TableCompletion(t)

SpecLive == Init /\ [][NextLive]_vars /\ WF_vars(NextLive)

(* ------------------------- history of a table -------------------------- *)

Range(f) == {f[i] : i \in DOMAIN f}

\* The requests admitted into service so far, and those completed so far.
AdmittedReqs(t) == {a.req : a \in Range(hist[t].admitted)}
ServedReqs(t) == {c.req : c \in Range(hist[t].served)}
\* The requests in service: admitted and not yet completed.
InService(t) == AdmittedReqs(t) \ ServedReqs(t)
\* The instant request r completed, for r in ServedReqs(t).
ServedAt(t, r) == (CHOOSE c \in Range(hist[t].served) : c.req = r).at
\* r has completed by instant tm.
ServedBy(t, r, tm) == r \in ServedReqs(t) /\ ServedAt(t, r) <= tm

(* ------------------------------- claims -------------------------------- *)

\* C1: in every reachable state a writer and readers are never in service together
\* (writeActive implies activeReaders = 0, activeReaders > 0 implies no writer), and
\* at most one Write is in service; the flags agree with the requests in service.
C1_MutualExclusion ==
    \A t \in Tables :
        LET W == {r \in InService(t) : r.kind = WRITE}
            R == {r \in InService(t) : r.kind = READ}
        IN  /\ table[t].writeActive => table[t].activeReaders = 0
            /\ table[t].activeReaders > 0 => ~table[t].writeActive
            /\ Cardinality(W) <= 1
            /\ W # {} => R = {}
            /\ table[t].writeActive <=> W # {}
            /\ table[t].activeReaders = Cardinality(R)

\* A Write is in service after Reads were served, with a Read waiting behind it.
C1_Witness ==
    \E t \in Tables :
        /\ table[t].writeActive
        /\ table[t].totalReads > 0
        /\ table[t].requestQueue # << >>
        /\ Head(table[t].requestQueue).kind = READ

\* C2: FCFS no-overtake: if A was enqueued before B on a table, B is never in
\* service or served while A still waits in the queue; the requests admitted are
\* the first arrivals, in arrival order, and the queue of a table that has not
\* been destroyed holds the others in order.
C2_NoOvertake ==
    \A t \in Tables :
        LET arr == hist[t].arrived
            adm == hist[t].admitted
        IN  /\ \A i, j \in DOMAIN arr :
                  (i < j /\ arr[j] \in AdmittedReqs(t)) => arr[i] \notin Range(table[t].requestQueue)
            /\ Len(adm) <= Len(arr)
            /\ \A i \in DOMAIN adm : adm[i].req = arr[i]
            /\ ~hist[t].destroyed =>
                  table[t].requestQueue = SubSeq(arr, Len(adm) + 1, Len(arr))

\* Readers are active, a Write is blocked at the head and a Read that arrived at
\* the same instant as the Write waits behind it.
C2_Witness ==
    \E t \in Tables :
        LET q == table[t].requestQueue
        IN  /\ table[t].activeReaders > 0
            /\ Len(q) >= 2
            /\ q[1].kind = WRITE
            /\ q[2].kind = READ
            /\ q[1].arrivalTime = q[2].arrivalTime

\* C3: after every handled event a table is never idle with a non-empty queue, and
\* whenever the queue is non-empty and no writer is active, the head is a Write and
\* activeReaders > 0.
C3_AdmissionExhausted ==
    \A t \in Tables :
        LET q == table[t].requestQueue
        IN  /\ q # << >> => ~(table[t].activeReaders = 0 /\ ~table[t].writeActive)
            /\ (q # << >> /\ ~table[t].writeActive) =>
                  (Head(q).kind = WRITE /\ table[t].activeReaders > 0)

\* A completion has been handled and left a Write waiting at the head behind readers.
C3_Witness ==
    \E t \in Tables :
        /\ table[t].totalServed > 0
        /\ table[t].requestQueue # << >>
        /\ ~table[t].writeActive
        /\ table[t].activeReaders > 0

\* C4: nothing is admitted while a Write is in service: whatever is admitted after
\* a Write is admitted no earlier than the instant that Write completes (its
\* admission instant plus its serviceTime), so a request that arrived during the
\* Write's service stays queued until that instant.
C4_WriterBlocksQueue ==
    \A t \in Tables :
        LET adm == hist[t].admitted
        IN  /\ \A i, j \in DOMAIN adm :
                  (i < j /\ adm[i].req.kind = WRITE) =>
                      adm[j].at >= adm[i].at + adm[i].req.serviceTime
            /\ \A i \in DOMAIN adm :
                  (adm[i].req.kind = WRITE /\ adm[i].req \in ServedReqs(t)) =>
                      ServedAt(t, adm[i].req) = adm[i].at + adm[i].req.serviceTime
            /\ table[t].writeActive =>
                  \A r \in Range(table[t].requestQueue) : r \notin AdmittedReqs(t)

\* A Write was admitted at its arrival; two Reads arrived at two later instants
\* during its service and both were admitted at the instant it completed.
C4_Witness ==
    \E t \in Tables :
        LET adm == hist[t].admitted
        IN  /\ Len(adm) >= 3
            /\ adm[1].req.kind = WRITE /\ adm[1].at = adm[1].req.arrivalTime
            /\ adm[2].req.kind = READ /\ adm[3].req.kind = READ
            /\ adm[1].at < adm[2].req.arrivalTime
            /\ adm[2].req.arrivalTime < adm[3].req.arrivalTime
            /\ adm[3].req.arrivalTime < adm[1].at + adm[1].req.serviceTime
            /\ adm[2].at = adm[1].at + adm[1].req.serviceTime
            /\ adm[3].at = adm[1].at + adm[1].req.serviceTime

\* C5: a Write is admitted only when every request admitted before it has
\* completed, and a Write that had to wait is admitted at the instant of such a
\* completion; a request behind a Write in the queue is admitted only after that
\* Write has been admitted and has completed.
C5_WriteWaitsForReaders ==
    \A t \in Tables :
        LET adm == hist[t].admitted
        IN  \A j \in DOMAIN adm :
              /\ adm[j].req.kind = WRITE =>
                    \A i \in 1 .. (j - 1) : ServedBy(t, adm[i].req, adm[j].at)
              /\ (adm[j].req.kind = WRITE /\ adm[j].at > adm[j].req.arrivalTime) =>
                    \E i \in 1 .. (j - 1) :
                        adm[i].req \in ServedReqs(t) /\ ServedAt(t, adm[i].req) = adm[j].at
              /\ \A i \in 1 .. (j - 1) :
                    adm[i].req.kind = WRITE => ServedBy(t, adm[i].req, adm[j].at)

\* A Write arrived while a Read was in service and waited for its completion; a
\* Read that arrived after the Write, while it waited, is still in the queue now
\* that the Write is in service.
C5_Witness ==
    \E t \in Tables :
        LET adm == hist[t].admitted
            q   == table[t].requestQueue
        IN  /\ Len(adm) = 2
            /\ adm[1].req.kind = READ
            /\ adm[2].req.kind = WRITE
            /\ adm[1].at < adm[2].req.arrivalTime
            /\ adm[2].req.arrivalTime < adm[2].at
            /\ ServedAt(t, adm[1].req) = adm[2].at
            /\ table[t].writeActive
            /\ q # << >>
            /\ Head(q).kind = READ
            /\ adm[2].req.arrivalTime < Head(q).arrivalTime
            /\ Head(q).arrivalTime < adm[2].at

\* The sum of f over the set S.
RECURSIVE SumOver(_, _)
SumOver(S, f) ==
    IF S = {} THEN 0
    ELSE LET x == CHOOSE y \in S : TRUE IN f[x] + SumOver(S \ {x}, f)

\* C6: at the end of any run the sum over the users of totalAccesses equals the sum
\* over the tables of totalServed, also when requests are still queued or in service.
C6_AccessesEqualServed ==
    phase = "ended" =>
        SumOver(Users, [u \in Users |-> user[u].totalAccesses])
            = SumOver(Tables, [t \in Tables |-> table[t].totalServed])

\* C7: in every reachable state totalServed = totalReads + totalWrites, every
\* completed request is counted once, under the kind it arrived with.
C7_ServedCounters ==
    \A t \in Tables :
        LET srv == hist[t].served
        IN  /\ table[t].totalServed = table[t].totalReads + table[t].totalWrites
            /\ table[t].totalServed = Len(srv)
            /\ table[t].totalReads = Cardinality({i \in DOMAIN srv : srv[i].req.kind = READ})
            /\ table[t].totalWrites = Cardinality({i \in DOMAIN srv : srv[i].req.kind = WRITE})
            /\ \A i, j \in DOMAIN srv : srv[i].req = srv[j].req => i = j
            /\ \A i \in DOMAIN srv : srv[i].req \in Range(hist[t].arrived)

\* A table has served a Read and a Write.
C7_Witness ==
    \E t \in Tables : table[t].totalReads > 0 /\ table[t].totalWrites > 0

\* C8: totalBusyTime plus the busy interval still open never exceeds the elapsed
\* simulated time, and the utilization recorded at finish in a run with
\* simDuration > 0 lies in [0, 1].
C8_UtilizationBound ==
    \A t \in Tables :
        /\ 0 <= finishBusyTime(table[t], now)
        /\ finishBusyTime(table[t], now) <= now
        /\ (phase = "ended" /\ now > 0) =>
              LET util == lastReport.table[t].utilization
              IN  /\ util.tag = "num"
                  /\ util.den = now
                  /\ 0 <= util.num
                  /\ util.num <= util.den

\* A run ended while the table was busy again after an earlier busy period with
\* overlapping readers: the utilization counts the closed and the open interval.
C8_Witness ==
    \E t \in Tables :
        /\ phase = "ended"
        /\ table[t].totalBusyTime > 0
        /\ table[t].activeReaders > 0
        /\ table[t].lastStateChange < now
        /\ table[t].totalReads >= 2
        /\ lastReport.table[t].utilization.num > table[t].totalBusyTime
        /\ lastReport.table[t].utilization.num < now

\* A scalar recorded as 0.
IsZero(x) == x.tag = "num" /\ x.num = 0

\* C9: a quantity whose denominator is zero is reported as 0: in a run of duration
\* 0 the utilization, the throughput and accessesPerSecond, with totalServed = 0 the
\* mean queueing wait, and without queue-length samples the mean queue length.
C9_ZeroDenominatorsReportZero ==
    phase = "ended" =>
        /\ \A u \in Users :
              now = 0 => IsZero(lastReport.user[u].accessesPerSecond)
        /\ \A t \in Tables :
              /\ now = 0 => IsZero(lastReport.table[t].utilization)
              /\ now = 0 => IsZero(lastReport.table[t].throughput)
              /\ table[t].totalServed = 0 => IsZero(lastReport.table[t].avgWaitingTime)
              /\ table[t].queueLengthSamples = 0 => IsZero(lastReport.table[t].queueLength)

\* C10: a finish() called again on a table or on a user, no event handled in
\* between, records the same scalars and changes no field of any module (a step
\* of the ended run that destroys no table is such a call).
C10_FinalizeIdempotent ==
    [][ (phase = "ended" /\ phase' = "ended" /\ hist' = hist) =>
            /\ lastReport' = lastReport
            /\ table' = table
            /\ user' = user
            /\ now' = now
            /\ fes' = fes ]_vars

\* finish() has run on a table that is busy, with requests served and queued, and
\* on a user with accesses; what is recorded is what finish() computes again.
C10_Witness ==
    /\ phase = "ended"
    /\ \E t \in Tables :
          /\ table[t].activeReaders > 0
          /\ table[t].totalServed > 0
          /\ table[t].requestQueue # << >>
          /\ table[t].lastStateChange < now
          /\ lastReport.table[t] = tableScalars(table[t], now)
    /\ \E u \in Users :
          /\ user[u].totalAccesses > 0
          /\ lastReport.user[u] = userScalars(user[u], now)

\* The ids of the requests of a set or sequence of requests.
Ids(rs) == {r.id : r \in rs}

\* C11: once a table is torn down no serviceDone event of it is scheduled any more,
\* every completion record and every request it owned, queued or in service, has
\* been released, and no response was sent for a request that had not completed.
C11_TeardownReleasesAll ==
    \A t \in Tables :
        hist[t].destroyed =>
            /\ \A i \in DOMAIN fes : ~(fes[i].type = "done" /\ fes[i].dest = t)
            /\ table[t].serviceEvents = << >>
            /\ table[t].requestQueue = << >>
            /\ Ids(InService(t)) \subseteq hist[t].cancelled
            /\ Ids(Range(hist[t].arrived)) \subseteq hist[t].deleted
            /\ \A i \in DOMAIN fes :
                  fes[i].type = "resp" =>
                      \E c \in Range(hist[t].served) :
                          /\ c.req.userId = fes[i].dest
                          /\ c.req.arrivalTime = fes[i].msg.arrivalTime

\* A user parameter set the specification calls a configuration fault.
ConfigFault(par) ==
    \/ par.tableDistribution \notin {"uniform", "lognormal"}
    \/ par.readProbability \notin 0 .. 100

\* C12: with a configuration fault in some user (unknown tableDistribution, or
\* readProbability outside [0,1]) no timer fire, arrival or completion of any
\* component is ever processed: the run aborts at startup.
C12_ConfigFaultAbortsAtStartup ==
    (\E u \in Users : ConfigFault(userPar[u])) =>
        /\ nextId = 1
        /\ \A u \in Users : user[u] = UserInit
        /\ \A t \in Tables : hist[t].arrived = << >> /\ hist[t].served = << >>

\* C13: the responses a table has sent are, in order, one per completion: each goes
\* to the user that created the request and carries the kind and the arrival time
\* the request was created with; no request is answered twice and every answered
\* request had been admitted.
C13_OneResponsePerCompletion ==
    \A t \in Tables :
        /\ Len(hist[t].sent) = Len(hist[t].served)
        /\ \A i \in DOMAIN hist[t].sent :
              LET s == hist[t].sent[i]
              IN  /\ s.req = hist[t].served[i].req.id
                  /\ s.req \in Ids(AdmittedReqs(t))
                  /\ s.to = issued[s.req].userId
                  /\ s.msg.kind = issued[s.req].kind
                  /\ s.msg.arrivalTime = issued[s.req].time
                  /\ \A j \in DOMAIN hist[t].sent : hist[t].sent[j].req = s.req => j = i

\* C13 witness: a Read and a Write of different users have been answered, the Write
\* after having waited in the queue.
C13_Witness ==
    \E t \in Tables : \E r, w \in Range(hist[t].sent) :
        /\ r.msg.kind = READ /\ w.msg.kind = WRITE
        /\ r.to # w.to
        /\ \E c \in Range(hist[t].served) : c.req.id = w.req /\ c.at > w.msg.arrivalTime + c.req.serviceTime

\* The accessTimer events of user u pending in the future event set.
PendingTimers(u) == {i \in DOMAIN fes : fes[i].type = "timer" /\ fes[i].dest = u}

\* C14: after initialization and after every timer fire exactly one accessTimer of
\* each user is pending, and every timer fire so far has created exactly one
\* request, for one table with an index in 0 .. numTables - 1.
C14_GeneratorNeverSilent ==
    /\ \A u \in Users : Cardinality(PendingTimers(u)) = 1
    /\ Len(issued) = SumOver(Users, [u \in Users |-> user[u].totalAccesses])
    /\ \A id \in DOMAIN issued : issued[id].tableId \in 0 .. (numTables - 1)

\* The serviceDone events of table t pending in the future event set.
PendingDone(t) == {i \in DOMAIN fes : fes[i].type = "done" /\ fes[i].dest = t}

\* C15: while a table exists, serviceEvents holds one record per request in service
\* and nothing else, each of these requests has exactly one serviceDone event
\* scheduled, and the number of records is activeReaders plus one if writeActive.
C15_OneCompletionPerAdmitted ==
    \A t \in Tables :
        ~hist[t].destroyed =>
            LET evts == table[t].serviceEvents
            IN  /\ Len(evts) = table[t].activeReaders + (IF table[t].writeActive THEN 1 ELSE 0)
                /\ Range(evts) = Ids(InService(t))
                /\ \A i, j \in DOMAIN evts : evts[i] = evts[j] => i = j
                /\ \A r \in InService(t) :
                      Cardinality({i \in PendingDone(t) : fes[i].msg = r}) = 1
                /\ Cardinality(PendingDone(t)) = Len(evts)

\* C15 witness: two Reads are in service, and the one admitted first is the one that
\* will complete last.
C15_Witness ==
    \E t \in Tables :
        /\ table[t].activeReaders = 2
        /\ Len(table[t].serviceEvents) = 2
        /\ \E i, j \in PendingDone(t) :
              /\ i < j
              /\ fes[i].msg.id = table[t].serviceEvents[2]
              /\ fes[j].msg.id = table[t].serviceEvents[1]
        /\ hist[t].served # << >>

\* The fields of table t agree with what has happened at it.
TableConsistent(t) ==
    /\ table[t].activeReaders = Cardinality({r \in InService(t) : r.kind = READ})
    /\ table[t].writeActive = (\E r \in InService(t) : r.kind = WRITE)
    /\ table[t].totalServed = Len(hist[t].served)
    /\ table[t].totalReads + table[t].totalWrites = table[t].totalServed
    /\ Len(table[t].requestQueue) = Len(hist[t].arrived) - Len(hist[t].admitted)
    /\ Len(table[t].serviceEvents) = Cardinality(InService(t))

\* The step in which a serviceDone event without a request is handled by table t.
NullCompletionStep(t) == hist[t].faultAt = -1 /\ hist'[t].faultAt # -1

\* C16: handling a serviceDone event without a request sends nothing and changes
\* neither the table's flags, queue, counters and busy-time fields nor anything
\* else, and afterwards the table goes on handling arrivals and completions with
\* its fields in agreement with the requests it holds.
C16_NullCompletionDiscarded ==
    /\ [][\A t \in Tables :
             NullCompletionStep(t) =>
                 /\ table' = table
                 /\ fes' = fes
                 /\ <<now, phase, user, nextId>>' = <<now, phase, user, nextId>>
                 /\ hist' = [hist EXCEPT ![t].faultAt = hist'[t].faultAt]]_vars
    /\ [](\A t \in Tables : hist[t].faultAt # -1 => TableConsistent(t))

\* C16 witness: the event reached the table while a request was in service and
\* another queued, and the table has since handled both completions and a later
\* arrival.
C16_Witness ==
    \E t \in Tables :
        /\ hist[t].faultAt = 2
        /\ Len(hist[t].arrived) >= 3
        /\ Len(hist[t].served) >= 2
        /\ hist[t].admitted[2].at > hist[t].arrived[2].arrivalTime
        /\ hist[t].arrived[3].arrivalTime >= hist[t].admitted[2].at

\* Request id has been appended to the queue of a table.
Queued(id) == \E t \in Tables : id \in Ids(Range(hist[t].arrived))

\* Request id has been admitted into service and its response has been sent.
Answered(id) ==
    \E t \in Tables :
        /\ id \in Ids(AdmittedReqs(t))
        /\ \E i \in DOMAIN hist[t].sent : hist[t].sent[i].req = id

\* The number of events handled so far, on which every step of the run advances.
Progress ==
    nextId + (IF phase = "running" THEN 0 ELSE 1)
    + SumOver(Tables, [t \in Tables |-> Len(hist[t].arrived) + Len(hist[t].served) + Len(hist[t].sent)])
    - Cardinality({i \in DOMAIN fes : fes[i].type \in {"resp", "timer"}})

\* C17: in a run that continues (it is not ended and not aborted) and in which
\* every pending event is eventually delivered, every request appended to a queue
\* is eventually admitted and answered, Writes queued behind Reads included:
\* every step handles an event, of which there are finitely many; a request is in
\* service or answered as soon as all the requests that arrived before it have
\* completed, whatever arrives after it; and when no event is pending any more
\* every request that arrived has been answered.
C17_NoStarvation ==
    /\ [][Progress' > Progress]_vars
    /\ [](\A t \in Tables : \A i \in DOMAIN hist[t].arrived :
             (\A j \in 1 .. (i - 1) : hist[t].arrived[j] \in ServedReqs(t)) =>
                 hist[t].arrived[i] \in AdmittedReqs(t))
    /\ [](\A id \in 1 .. MaxRequests :
             (Queued(id) /\ phase = "running" /\ fes = << >>) => Answered(id))

\* C17 witness: a Write that found Reads in service and waited, while a Read that
\* arrived after it was queued behind it, has been answered.
C17_Witness ==
    \E t \in Tables : \E i, j \in DOMAIN hist[t].arrived :
        LET w == hist[t].arrived[i]
            r == hist[t].arrived[j]
        IN  /\ w.kind = WRITE /\ r.kind = READ /\ i < j
            /\ Answered(w.id)
            /\ \E a \in Range(hist[t].admitted) :
                  /\ a.req = w
                  /\ a.at > w.arrivalTime
                  /\ r.arrivalTime < a.at
                  /\ \E b \in Range(hist[t].admitted) :
                        b.req.kind = READ /\ b.at <= w.arrivalTime /\ ~ServedBy(t, b.req, w.arrivalTime)

\* The sum and the largest of a sequence of naturals.
RECURSIVE SeqSum(_)
SeqSum(f) == IF f = << >> THEN 0 ELSE Head(f) + SeqSum(Tail(f))
SeqMax(f) == IF f = << >> THEN 0 ELSE CHOOSE m \in Range(f) : \A x \in Range(f) : x <= m

\* C18: the queue length is sampled once per arrival and at no other event, with
\* the new request counted: queueLengthSamples is the number of arrivals handled,
\* every sample is at least 1, totalQueueLength is the sum of the samples and
\* maxQueueLength the largest of them.
C18_QueueLengthSampling ==
    \A t \in Tables :
        /\ table[t].queueLengthSamples = Len(hist[t].arrived)
        /\ Len(hist[t].samples) = Len(hist[t].arrived)
        /\ \A i \in DOMAIN hist[t].samples : hist[t].samples[i] >= 1
        /\ table[t].totalQueueLength = SeqSum(hist[t].samples)
        /\ table[t].maxQueueLength = SeqMax(hist[t].samples)

\* C18 witness: after three arrivals and at least one completion the samples are
\* not all equal, one of them taken on an arrival at an idle table.
C18_Witness ==
    \E t \in Tables :
        /\ Len(hist[t].samples) >= 3
        /\ hist[t].served # << >>
        /\ table[t].maxQueueLength >= 2
        /\ \E i \in DOMAIN hist[t].samples :
              i > 1 /\ hist[t].samples[i] = 1 /\ hist[t].samples[i - 1] >= 2

\* The queueing delay of request r of table t: from its arrival to its admission.
WaitOf(t, r) == (CHOOSE a \in Range(hist[t].admitted) : a.req = r).at - r.arrivalTime

\* The sum of the queueing delays of the requests table t has completed.
ServedWaitSum(t) ==
    SeqSum([i \in DOMAIN hist[t].served |-> WaitOf(t, hist[t].served[i].req)])

\* C19: the mean queueing wait recorded at finish is the sum of the queueing delays
\* of the requests counted in totalServed divided by totalServed, also when the run
\* ends with requests admitted and not yet completed.
C19_MeanWaitOverServed ==
    \A t \in Tables :
        (phase = "ended" /\ table[t].totalServed > 0) =>
            LET w == lastReport.table[t].avgWaitingTime
            IN  /\ w.tag = "num"
                /\ table[t].totalServed = Len(hist[t].served)
                /\ w.num * Len(hist[t].served) = ServedWaitSum(t) * w.den

\* The ticks [k, k+1) before the current instant during which table t had at least
\* one request in service.
BusyTicks(t) ==
    {k \in 0 .. (now - 1) :
        \E a \in Range(hist[t].admitted) :
            /\ a.at <= k
            /\ a.req \in ServedReqs(t) => k < ServedAt(t, a.req)}

\* C20: at every instant totalBusyTime, plus the time since lastStateChange if the
\* table is busy, is the simulated time since initialization during which at least
\* one Read or the Write was in service.
C20_BusyTimeExact ==
    \A t \in Tables : finishBusyTime(table[t], now) = Cardinality(BusyTicks(t))

\* C20 witness: a Write completed, leaving the table empty, and at the same instant
\* a request that had been waiting was admitted; time has passed since, and the
\* table had been idle for a while before.
C20_Witness ==
    \E t \in Tables :
        /\ \E c \in Range(hist[t].served), a \in Range(hist[t].admitted) :
              /\ c.req.kind = WRITE
              /\ a.at = c.at
              /\ a.req.arrivalTime < a.at
              /\ now > a.at
        /\ table[t].totalBusyTime > 0
        /\ Cardinality(BusyTicks(t)) < now - 1

\* C21: while a table exists, the requests that have arrived at it are its queue
\* length plus activeReaders plus one if writeActive plus totalServed; each of them
\* is in exactly one of queue, service and served, and activeReaders counts the
\* Reads in service, so the decrement on a Read's completion never goes below 0.
C21_RequestConservation ==
    \A t \in Tables :
        ~hist[t].destroyed =>
            LET queued == Ids(Range(table[t].requestQueue))
                active == Ids(InService(t))
                served == Ids(ServedReqs(t))
            IN  /\ Len(hist[t].arrived) =
                      Len(table[t].requestQueue) + table[t].activeReaders
                      + (IF table[t].writeActive THEN 1 ELSE 0) + table[t].totalServed
                /\ Cardinality(Ids(Range(hist[t].arrived))) = Len(hist[t].arrived)
                /\ queued \cup active \cup served = Ids(Range(hist[t].arrived))
                /\ queued \cap active = {} /\ queued \cap served = {} /\ active \cap served = {}
                /\ Cardinality(queued) = Len(table[t].requestQueue)
                /\ Cardinality(served) = table[t].totalServed
                /\ table[t].activeReaders = Cardinality({r \in InService(t) : r.kind = READ})

\* C21 witness: a Write has been served and a Read has completed while another Read
\* was still in service, with a request waiting in the queue.
C21_Witness ==
    \E t \in Tables :
        /\ ~hist[t].destroyed
        /\ table[t].requestQueue # << >>
        /\ table[t].activeReaders >= 1
        /\ table[t].totalWrites >= 1
        /\ \E c \in Range(hist[t].served) :
              /\ c.req.kind = READ
              /\ \E a \in Range(hist[t].admitted) :
                    a.req.kind = READ /\ a.req # c.req /\ a.at <= c.at /\ ~ServedBy(t, a.req, c.at)

=============================================================================
